---- MODULE Spec2Model ----
(***************************************************************************)
(* Model of the vote front end, src/vote/app.py: the request handler       *)
(* hello() (identity resolution, vote submission, response) and            *)
(* get_redis(), together with the Redis list 'votes' they append to and    *)
(* the cookie jars of the clients that call them.                          *)
(*                                                                         *)
(* Text is modelled as a sequence of one-character strings, so that        *)
(* hex(), slicing and json.dumps are computed character by character.      *)
(* An optional value is a sequence of length 0 (None / absent) or 1.       *)
(***************************************************************************)
EXTENDS Integers, Sequences, FiniteSets, TLC

VARIABLES
    python,     \* the major version of the interpreter (decides hex(), line 46)
    votes,      \* the Redis list 'votes' (line 55)
    jar,        \* per client, its cookie voter_id (lines 44 and 64)
    issued,     \* per client, whether a response has set its cookie (line 64)
    lastVoted,  \* per client, the vote of its last response if that was a
                \* successful POST (lines 52, 62)
    ctx,        \* per serving context, the request it handles: the handler's
                \* locals, Flask's g, and the response (lines 42-65); its
                \* field clients counts the Redis clients the context has
                \* built over all its requests (line 38)
    started,    \* the number of requests received
    postsOk     \* the number of POST requests answered with a 200

vars == <<python, votes, jar, issued, lastVoted, ctx, started, postsOk>>

(* ------------------------------ bounds --------------------------------- *)

MaxRequests == 2

Workers == {"w1", "w2"}

Clients == {"alice", "bob"}

(* ---------------------------- optional values -------------------------- *)

None == <<>>

Some(x) == <<x>>

IsSome(o) == Len(o) = 1

Get(o) == o[1]

(* ------------------------------ inputs --------------------------------- *)

\* The interpreter that runs app.py: hex() of the value getrandbits returns
\* ends in "L" on Python 2 (a long) and has no suffix on Python 3.
PythonVersions == {2, 3}

\* Width of the random value, random.getrandbits(64).
RandBits == 64

Nibbles == RandBits \div 4

\* A 64-bit value, as its 16 hexadecimal digits, most significant first.
Low(hi, lo) == [i \in 1..Nibbles |-> IF i = Nibbles - 1 THEN hi ELSE IF i = Nibbles THEN lo ELSE 0]

AllF == [i \in 1..Nibbles |-> 15]

\* Values random.getrandbits(64) can return: 0, 1 and 2^64 - 1.
RandomValues == {Low(0, 0), Low(0, 1), AllF}

\* The keys of the two options of the ballot.
OptionKeys == {<<"a">>, <<"b">>}

\* Values a client may post in the form field 'vote': the key of an option,
\* and a value that is no key (and that json.dumps has to escape).
VoteInputs == {<<"a">>, <<"\"", "\\">>}

\* The form of a POST: with or without the field 'vote'.
FormInputs == {None} \cup {Some(v) : v \in VoteInputs}

\* Cookie jars the clients start with: no voter_id cookie, an empty one, or
\* one of the client's own making (the token is trusted as presented).
OwnCookie(c) == IF c = "alice" THEN <<"\\", "\"">> ELSE <<"b", "0">>

InitialJars ==
    {[c \in Clients |-> None], [c \in Clients |-> Some(<<>>)], [c \in Clients |-> Some(OwnCookie(c))]}

(* ------------------------- hex(...)[2:-1], line 46 --------------------- *)

HexChars == <<"0", "1", "2", "3", "4", "5", "6", "7", "8", "9", "a", "b", "c", "d", "e", "f">>

RECURSIVE StripZeros(_)
StripZeros(ds) ==
    IF ds = <<>> THEN <<>>
    ELSE IF Head(ds) = 0 THEN StripZeros(Tail(ds))
    ELSE ds

\* hex(n): "0x", the digits without leading zeros (one "0" for zero), and the
\* "L" of a Python 2 long.
hex(py, n) ==
    LET ds == StripZeros(n)
        digits == IF ds = <<>> THEN <<"0">> ELSE [i \in 1..Len(ds) |-> HexChars[ds[i] + 1]]
    IN  <<"0", "x">> \o digits \o (IF py = 2 THEN <<"L">> ELSE <<>>)

\* s[2:-1]
Slice2m1(s) == SubSeq(s, 3, Len(s) - 1)

Mint(py, n) == Slice2m1(hex(py, n))

(* --------------------------- json.dumps, line 54 ----------------------- *)

VOTER_ID == <<"v", "o", "t", "e", "r", "_", "i", "d">>

VOTE == <<"v", "o", "t", "e">>

RECURSIVE Escape(_)
Escape(s) ==
    IF s = <<>> THEN <<>>
    ELSE IF Head(s) \in {"\"", "\\"} THEN <<"\\", Head(s)>> \o Escape(Tail(s))
    ELSE <<Head(s)>> \o Escape(Tail(s))

\* A serializer that does not escape.
QuotedRaw(s) == <<"\"">> \o s \o <<"\"">>

Quoted(s) == <<"\"">> \o Escape(s) \o <<"\"">>

Member(k, v) == Quoted(k) \o <<":", " ">> \o Quoted(v)

\* json.dumps({'voter_id': voter_id, 'vote': vote})
JsonDumps(voter_id, vote) ==
    <<"{">> \o Member(VOTER_ID, voter_id) \o <<",", " ">> \o Member(VOTE, vote) \o <<"}">>

(* ------------------- the consumer's json decoding ---------------------- *)

\* The text of a JSON string literal whose opening quote is before position i:
\* its value and the position after its closing quote.
RECURSIVE Unquote(_, _, _)
Unquote(s, i, acc) ==
    IF i > Len(s) THEN [ok |-> FALSE, val |-> acc, next |-> i]
    ELSE IF s[i] = "\"" THEN [ok |-> TRUE, val |-> acc, next |-> i + 1]
    ELSE IF s[i] = "\\"
         THEN IF i + 1 > Len(s) THEN [ok |-> FALSE, val |-> acc, next |-> i]
              ELSE Unquote(s, i + 2, Append(acc, s[i + 1]))
    ELSE Unquote(s, i + 1, Append(acc, s[i]))

At(s, i) == IF i >= 1 /\ i <= Len(s) THEN s[i] ELSE ""

\* What the decoding gives for a text that is no JSON object of strings.
Malformed == {<<<<"malformed">>>>}

\* The members of a JSON object from position i on, as a set of <<name, value>>
\* pairs; a later member of the same name replaces an earlier one.
RECURSIVE ParseMembers(_, _, _)
ParseMembers(s, i, acc) ==
    IF At(s, i) # "\"" THEN Malformed
    ELSE LET k == Unquote(s, i + 1, <<>>)
         IN  IF ~k.ok \/ At(s, k.next) # ":" \/ At(s, k.next + 1) # " " \/ At(s, k.next + 2) # "\""
             THEN Malformed
             ELSE LET v == Unquote(s, k.next + 3, <<>>)
                      obj == {m \in acc : m[1] # k.val} \cup {<<k.val, v.val>>}
                  IN  IF ~v.ok THEN Malformed
                      ELSE IF At(s, v.next) = "}" /\ v.next = Len(s) THEN obj
                      ELSE IF At(s, v.next) = "," /\ At(s, v.next + 1) = " "
                           THEN ParseMembers(s, v.next + 2, obj)
                      ELSE Malformed

\* json.loads of a payload of the queue.
JsonLoads(s) == IF At(s, 1) = "{" THEN ParseMembers(s, 2, {}) ELSE Malformed

(* ------------------------------ the state ------------------------------ *)

\* A serving context with no request.
Idle ==
    [pc |-> "idle", client |-> "", method |-> "", cookie |-> None, form |-> None,
     returning |-> FALSE, prevVote |-> None, rand |-> None, voter_id |-> <<>>,
     vote |-> None, g_redis |-> FALSE, built |-> 0, data |-> None, rpush |-> 0,
     reply |-> "", appended |-> FALSE, clients |-> 0, status |-> 0, set_cookie |-> None, body_vote |-> None]

Init ==
    /\ python \in PythonVersions
    /\ votes = <<>>
    /\ jar \in InitialJars
    /\ issued = [c \in Clients |-> FALSE]
    /\ lastVoted = [c \in Clients |-> None]
    /\ ctx = [w \in Workers |-> Idle]
    /\ started = 0
    /\ postsOk = 0

(* --------------------------- hello(), lines 42-65 ---------------------- *)

\* if not voter_id
Falsy(cookie) == ~IsSome(cookie) \/ Get(cookie) = <<>>

\* Lines 44-46: the cookie's value, or a token minted from the random value.
ResolveIdentity(py, cookie, rand) ==
    IF Falsy(cookie) THEN Mint(py, Get(rand)) ELSE Get(cookie)

\* The random values line 46 can draw: none when the cookie is kept.
Draws(cookie) == IF Falsy(cookie) THEN {Some(n) : n \in RandomValues} ELSE {None}

\* The forms a request of the method can carry.
Forms(method) == IF method = "POST" THEN FormInputs ELSE {None}

Free(w) == ctx[w].pc \in {"idle", "done"}

\* The serving context the server gives the next request: the contexts are
\* interchangeable, so the first free one stands for any of them.
FreeWorker ==
    IF Free("w1") THEN "w1" ELSE IF Free("w2") THEN "w2" ELSE "none"

\* Lines 42-48: a request of client c arrives at context w, with the cookie
\* of the client's jar; a new application context (g) is pushed for it.
Receive(w, c, method, form, rand) ==
    /\ w = FreeWorker
    /\ started < MaxRequests
    /\ started' = started + 1
    /\ ctx' = [ctx EXCEPT ![w] =
                 [Idle EXCEPT !.pc = "received", !.client = c, !.method = method,
                              !.cookie = jar[c], !.form = form,
                              !.returning = issued[c], !.prevVote = lastVoted[c],
                              !.rand = rand, !.clients = ctx[w].clients,
                              !.voter_id = ResolveIdentity(python, jar[c], rand)]]
    /\ UNCHANGED <<python, votes, jar, issued, lastVoted, postsOk>>

\* Lines 25-40: get_redis() builds a client when g has none, and returns
\* the client of g.
get_redis(c) ==
    [c EXCEPT !.g_redis = TRUE, !.built = IF c.g_redis THEN @ ELSE @ + 1,
              !.clients = IF c.g_redis THEN @ ELSE @ + 1]

\* The response Flask makes of an exception the handler raises: the status,
\* and nothing of what the handler had prepared.
Abort(c, status) == [c EXCEPT !.pc = "done", !.status = status]

\* The client takes a response: it stores the cookie the response sets.
Deliver(c) ==
    /\ jar' = IF IsSome(c.set_cookie) THEN [jar EXCEPT ![c.client] = c.set_cookie] ELSE jar
    /\ issued' = IF IsSome(c.set_cookie) THEN [issued EXCEPT ![c.client] = TRUE] ELSE issued
    /\ lastVoted' = [lastVoted EXCEPT ![c.client] =
                       IF c.status = 200 /\ c.method = "POST" THEN c.vote ELSE None]
    /\ postsOk' = IF c.status = 200 /\ c.method = "POST" THEN postsOk + 1 ELSE postsOk

\* A handler that reads the field with a default, request.form.get('vote', '').
ReadFormDefault(w) ==
    /\ ctx[w].pc = "received"
    /\ ctx[w].method = "POST"
    /\ ~IsSome(ctx[w].form)
    /\ ctx' = [ctx EXCEPT ![w] =
                 [get_redis(@) EXCEPT !.pc = "dumped",
                                      !.vote = Some(<<>>),
                                      !.data = Some(JsonDumps(ctx[w].voter_id, <<>>))]]
    /\ UNCHANGED <<python, votes, jar, issued, lastVoted, started, postsOk>>

\* A handler without the test of line 50, which takes every request into the
\* submission path.
ReadFormAnyMethod(w) ==
    /\ ctx[w].pc = "received"
    /\ ~IsSome(ctx[w].form)
    /\ ctx' = [ctx EXCEPT ![w] = Abort(get_redis(@), 400)]
    /\ Deliver(ctx'[w])
    /\ UNCHANGED <<python, votes, started>>

\* Lines 50-52 without the field: request.form['vote'] raises a 400 Bad Request.
ReadFormMissing(w) ==
    /\ ctx[w].pc = "received"
    /\ ctx[w].method = "POST"
    /\ ~IsSome(ctx[w].form)
    /\ ctx' = [ctx EXCEPT ![w] = Abort(get_redis(@), 400)]
    /\ Deliver(ctx'[w])
    /\ UNCHANGED <<python, votes, started>>

\* Lines 50-54: the client is fetched, the vote read and the record serialized.
ReadForm(w) ==
    /\ ctx[w].pc = "received"
    /\ ctx[w].method = "POST"
    /\ IsSome(ctx[w].form)
    /\ ctx' = [ctx EXCEPT ![w] =
                 [get_redis(@) EXCEPT !.pc = "dumped",
                                      !.vote = ctx[w].form,
                                      !.data = Some(JsonDumps(ctx[w].voter_id, Get(ctx[w].form)))]]
    /\ UNCHANGED <<python, votes, jar, issued, lastVoted, started, postsOk>>

\* A handler that keeps the serialized record in a module global, which a
\* request serialized meanwhile by another context overwrites.
RpushShared(w) ==
    /\ ctx[w].pc = "dumped"
    /\ LET v == CHOOSE x \in Workers : x # w
           data == IF ctx[v].pc = "dumped" THEN ctx[v].data ELSE ctx[w].data
       IN  votes' = Append(votes, Get(data))
    /\ ctx' = [ctx EXCEPT ![w].pc = "pushed", ![w].rpush = @ + 1,
                          ![w].reply = "ok", ![w].appended = TRUE]
    /\ UNCHANGED <<python, jar, issued, lastVoted, started, postsOk>>

\* A handler that hands the record to a background sender: the call returns
\* before anything is appended.
RpushDeferred(w) ==
    /\ ctx[w].pc = "dumped"
    /\ ctx' = [ctx EXCEPT ![w].pc = "pushed", ![w].rpush = @ + 1, ![w].reply = "ok"]
    /\ UNCHANGED <<python, votes, jar, issued, lastVoted, started, postsOk>>

\* Line 55: the server appends the payload and its reply arrives.
RpushOk(w) ==
    /\ ctx[w].pc = "dumped"
    /\ votes' = Append(votes, Get(ctx[w].data))
    /\ ctx' = [ctx EXCEPT ![w].pc = "pushed", ![w].rpush = @ + 1,
                          ![w].reply = "ok", ![w].appended = TRUE]
    /\ UNCHANGED <<python, jar, issued, lastVoted, started, postsOk>>

\* A handler that swallows the error of rpush and goes on to the response.
RpushSwallowed(w) ==
    /\ ctx[w].pc = "dumped"
    /\ ctx' = [ctx EXCEPT ![w].pc = "pushed", ![w].rpush = @ + 1,
                          ![w].reply = "ConnectionError"]
    /\ UNCHANGED <<python, votes, jar, issued, lastVoted, started, postsOk>>

\* A handler that calls rpush again after a first failure.
RpushRetried(w) ==
    /\ ctx[w].pc = "dumped"
    /\ ctx' = [ctx EXCEPT ![w] =
                 IF @.rpush = 0
                 THEN [@ EXCEPT !.rpush = @ + 1, !.reply = "ConnectionError"]
                 ELSE Abort([@ EXCEPT !.rpush = @ + 1, !.reply = "ConnectionError"], 500)]
    /\ IF ctx[w].rpush = 0
       THEN UNCHANGED <<jar, issued, lastVoted, postsOk>>
       ELSE Deliver(ctx'[w])
    /\ UNCHANGED <<python, votes, started>>

\* Line 55: the server cannot be reached; rpush raises ConnectionError.
RpushRefused(w) ==
    /\ ctx[w].pc = "dumped"
    /\ ctx' = [ctx EXCEPT ![w] =
                 Abort([@ EXCEPT !.rpush = @ + 1, !.reply = "ConnectionError"], 500)]
    /\ Deliver(ctx'[w])
    /\ UNCHANGED <<python, votes, started>>

\* What the server did with a command whose reply did not arrive in time.
TimeoutOutcomes == BOOLEAN

\* Lines 31 and 55: no reply within socket_timeout; rpush raises TimeoutError.
\* The command was sent: the server may or may not have executed it.
RpushTimeout(w, executed) ==
    /\ ctx[w].pc = "dumped"
    /\ votes' = IF executed THEN Append(votes, Get(ctx[w].data)) ELSE votes
    /\ ctx' = [ctx EXCEPT ![w] =
                 Abort([@ EXCEPT !.rpush = @ + 1, !.reply = "TimeoutError",
                                 !.appended = executed], 500)]
    /\ Deliver(ctx'[w])
    /\ UNCHANGED <<python, started>>

\* A handler that remembers the client's last vote and renders it again.
MakeResponseSticky(c) ==
    [c EXCEPT !.pc = "done", !.status = 200,
              !.body_vote = IF IsSome(c.vote) THEN c.vote ELSE c.prevVote,
              !.set_cookie = Some(c.voter_id)]

\* A handler that sets the cookie only when it minted the token.
MakeResponseNewOnly(c) ==
    [c EXCEPT !.pc = "done", !.status = 200, !.body_vote = c.vote,
              !.set_cookie = IF Falsy(c.cookie) THEN Some(c.voter_id) ELSE None]

\* Lines 57-65: the view is rendered with the vote and the cookie is set.
MakeResponse(c) ==
    [c EXCEPT !.pc = "done", !.status = 200, !.body_vote = c.vote,
              !.set_cookie = Some(c.voter_id)]

Respond(w) ==
    /\ \/ ctx[w].pc = "received" /\ ctx[w].method = "GET"
       \/ ctx[w].pc = "pushed"
    /\ ctx' = [ctx EXCEPT ![w] = MakeResponse(@)]
    /\ Deliver(ctx'[w])
    /\ UNCHANGED <<python, votes, started>>

Next ==
    \E w \in Workers :
        \/ \E c \in Clients, method \in {"GET", "POST"} :
              \E form \in Forms(method), rand \in Draws(jar[c]) :
                  Receive(w, c, method, form, rand)
        \/ ReadFormMissing(w)
        \/ ReadForm(w)
        \/ RpushOk(w)
        \/ RpushRefused(w)
        \/ \E executed \in TimeoutOutcomes : RpushTimeout(w, executed)
        \/ Respond(w)

Spec == Init /\ [][Next]_vars

(* ------------------------------ the claims ----------------------------- *)

Range(q) == {q[i] : i \in 1..Len(q)}

\* The request of context w has its response.
Done(w) == ctx[w].pc = "done"

Ok(w) == Done(w) /\ ctx[w].status = 200

\* No request is being served.
Quiescent == \A w \in Workers : Free(w)

ClientError == 400..499

ServerError == 500..599

\* C1: after any sequence of requests, the queue holds as many records as
\* POST requests completed successfully.
C1Orig == Quiescent => Len(votes) = postsOk

\* C2: the payload an accepted POST pushed decodes to exactly the fields
\* voter_id and vote, voter_id being the identity resolved for the request
\* (its cookie, or else the token minted for it) and the value of the cookie
\* the response sets, and vote the submitted value verbatim.
C2Thm ==
    \A w \in Workers :
        Ok(w) /\ ctx[w].method = "POST" =>
            /\ IsSome(ctx[w].data)
            /\ Get(ctx[w].data) \in Range(votes)
            /\ LET rec == JsonLoads(Get(ctx[w].data))
                   id == IF Falsy(ctx[w].cookie) THEN Mint(python, Get(ctx[w].rand))
                         ELSE Get(ctx[w].cookie)
               IN  /\ {m[1] : m \in rec} = {VOTER_ID, VOTE}
                   /\ rec = {<<VOTER_ID, id>>, <<VOTE, Get(ctx[w].form)>>}
                   /\ ctx[w].set_cookie = Some(id)

C2Witness ==
    \E w \in Workers :
        /\ Ok(w) /\ ctx[w].method = "POST"
        /\ ~Falsy(ctx[w].cookie)
        /\ \E i \in 1..Len(Get(ctx[w].cookie)) : Get(ctx[w].cookie)[i] = "\""
        /\ Get(ctx[w].form) = <<"\"", "\\">>

\* C3: a response to a request with a non-empty token sets that token; a
\* response to a request without one sets a freshly minted token; and a client
\* that returns the cookie it last received keeps its voter_id.
C3Orig ==
    \A w \in Workers :
        Ok(w) =>
            /\ ~Falsy(ctx[w].cookie) => ctx[w].set_cookie = ctx[w].cookie
            /\ Falsy(ctx[w].cookie) =>
                   /\ IsSome(ctx[w].rand)
                   /\ ctx[w].set_cookie = Some(Mint(python, Get(ctx[w].rand)))
            /\ ctx[w].returning => ctx[w].set_cookie = ctx[w].cookie

\* C4: a POST without the field 'vote' ends in a client error, with no rpush
\* issued and the queue as it was.
C4Thm ==
    [][\A w \in Workers :
          /\ ctx[w].method = "POST" /\ ~IsSome(ctx[w].form)
          /\ ~Done(w) /\ ctx'[w].pc = "done"
          => /\ ctx'[w].status \in ClientError
             /\ ctx'[w].rpush = 0
             /\ ~ctx'[w].appended
             /\ votes' = votes]_vars

C4Witness ==
    \E w \in Workers :
        /\ Done(w) /\ ctx[w].method = "POST" /\ ~IsSome(ctx[w].form)
        /\ ctx[w].status = 400
        /\ Len(votes) > 0

\* C5: a POST whose rpush failed or timed out ends in a server error; it
\* never gets a success response nor the view rendered with the vote.
C5Thm ==
    \A w \in Workers :
        /\ Done(w) /\ ctx[w].reply \in {"ConnectionError", "TimeoutError"}
               => ctx[w].status \in ServerError /\ ctx[w].body_vote = None
        /\ Ok(w) /\ ctx[w].method = "POST" => ctx[w].reply = "ok"
        /\ ctx[w].pc = "pushed" => ctx[w].reply = "ok"

C5Witness ==
    \E v, w \in Workers :
        /\ Done(v) /\ ctx[v].reply = "ConnectionError"
        /\ Done(w) /\ ctx[w].reply = "TimeoutError"

\* C6: a POST that ends in a server error because the append failed or timed
\* out has left no record in the queue.
C6Orig ==
    \A w \in Workers :
        Done(w) /\ ctx[w].status \in ServerError => ~ctx[w].appended

\* C7: a POST whose vote is no option key is rejected as a client error, and
\* every record of the queue has a vote that is an option key.
C7Orig ==
    /\ \A w \in Workers :
          Done(w) /\ IsSome(ctx[w].form) /\ Get(ctx[w].form) \notin OptionKeys
              => ctx[w].status \in ClientError
    /\ \A i \in 1..Len(votes) :
          \E k \in OptionKeys : <<VOTE, k>> \in JsonLoads(votes[i])

IsHex(s) == \A i \in 1..Len(s) : \E d \in 1..16 : s[i] = HexChars[d]

\* C8: a minted token is non-empty, is 16 hexadecimal characters long, and
\* differs from the token minted from any other random value.
C8Orig ==
    \A v, w \in Workers :
        ctx[w].pc # "idle" /\ IsSome(ctx[w].rand) =>
            /\ ctx[w].voter_id # <<>>
            /\ Len(ctx[w].voter_id) = Nibbles
            /\ IsHex(ctx[w].voter_id)
            /\ ctx[v].pc # "idle" /\ IsSome(ctx[v].rand) /\ ctx[v].rand # ctx[w].rand
                   => ctx[v].voter_id # ctx[w].voter_id

\* C9: the GET that follows a client's successful POST renders the view with
\* the choice that POST submitted.
C9Orig ==
    \A w \in Workers :
        Ok(w) /\ ctx[w].method = "GET" /\ IsSome(ctx[w].prevVote)
            => ctx[w].body_vote = ctx[w].prevVote

\* C9, amended: the response to a successful POST renders the view with the
\* submitted choice; the GET that follows it renders the view with no vote.
C9Thm ==
    \A w \in Workers :
        /\ Ok(w) /\ ctx[w].method = "POST" => ctx[w].body_vote = ctx[w].form
        /\ Ok(w) /\ ctx[w].method = "GET" /\ IsSome(ctx[w].prevVote)
               => ctx[w].body_vote = None

C9Witness ==
    \E w \in Workers :
        /\ Ok(w) /\ ctx[w].method = "GET"
        /\ ctx[w].prevVote = Some(<<"a">>)
        /\ ctx[w].returning

\* C10: every response sets the cookie voter_id to the resolved identity.
C10Orig ==
    \A w \in Workers : Done(w) => ctx[w].set_cookie = Some(ctx[w].voter_id)

\* C10, amended: every response the handler returns (status 200) sets the
\* cookie voter_id to the resolved identity, minted or reused; the error
\* responses (400, 500) made when the handler raises set no cookie.
C10Thm ==
    \A w \in Workers :
        /\ Ok(w) => ctx[w].set_cookie = Some(ctx[w].voter_id)
        /\ Done(w) /\ ctx[w].status # 200 => ctx[w].set_cookie = None

C10Witness ==
    \E v, w \in Workers :
        /\ Ok(v) /\ ~Falsy(ctx[v].cookie)
        /\ Done(w) /\ ctx[w].status = 400 /\ ~Falsy(ctx[w].cookie)

\* C11: a serving context builds its queue client on the first call of
\* get_redis only, and every later request it serves gets that same client.
C11Orig == \A w \in Workers : ctx[w].clients <= 1

\* C12: a POST issues at most one rpush, whether it succeeds, fails or times
\* out: a request whose rpush has been called does not call it again.
C12Thm ==
    /\ \A w \in Workers : ctx[w].rpush <= 1
    /\ \A w \in Workers :
          ctx[w].reply # "" => ctx[w].rpush = 1 /\ ctx[w].pc \in {"pushed", "done"}

C12Witness ==
    \E v, w \in Workers :
        /\ Done(v) /\ ctx[v].reply = "TimeoutError" /\ ~ctx[v].appended /\ ctx[v].rpush = 1
        /\ Done(w) /\ ctx[w].reply = "ok" /\ ctx[w].rpush = 1

\* The record of the request of context w, as the consumer decodes it.
OwnRecord(w) == {<<VOTER_ID, ctx[w].voter_id>>, <<VOTE, Get(ctx[w].form)>>}

\* Every request so far was a POST and was answered with a 200.
AllPostsSucceeded == Quiescent /\ postsOk = started

\* C13: requests served concurrently share no state: each request in the
\* submission path has the client its own context built, the record a request
\* appended pairs its own voter_id with its own choice, and when all POSTs
\* succeeded the queue holds one record per POST, the records of two
\* concurrent requests at two places of it.
C13Thm ==
    /\ \A w \in Workers :
          ctx[w].pc \in {"dumped", "pushed"} => ctx[w].g_redis /\ ctx[w].built = 1
    /\ \A w \in Workers :
          ctx[w].appended => \E i \in 1..Len(votes) : JsonLoads(votes[i]) = OwnRecord(w)
    /\ AllPostsSucceeded =>
          /\ Len(votes) = started
          /\ \A v, w \in Workers :
                v # w /\ Done(v) /\ Done(w) =>
                    \E i, j \in 1..Len(votes) :
                        /\ i # j
                        /\ JsonLoads(votes[i]) = OwnRecord(v)
                        /\ JsonLoads(votes[j]) = OwnRecord(w)

\* Two POSTs served at the same time, of different clients and choices, both
\* answered with a 200 (a request gets the second context only while the first
\* is busy).
C13Witness ==
    /\ AllPostsSucceeded
    /\ started = 2
    /\ Ok("w1") /\ Ok("w2")
    /\ ctx["w1"].voter_id # ctx["w2"].voter_id
    /\ ctx["w1"].form # ctx["w2"].form
    /\ ctx["w1"].client # ctx["w2"].client

\* C14: when the response of a POST renders the view with vote X and sets
\* the cookie, a record {voter_id, vote: X} of that request is already in
\* the queue.
C14Thm ==
    [][\A w \in Workers :
          /\ ~Done(w) /\ ctx'[w].pc = "done"
          /\ ctx'[w].status = 200 /\ ctx'[w].method = "POST"
          => /\ IsSome(ctx'[w].body_vote)
             /\ ctx'[w].set_cookie = Some(ctx'[w].voter_id)
             /\ ctx[w].appended
             /\ \E i \in 1..Len(votes) :
                   JsonLoads(votes[i]) =
                       {<<VOTER_ID, ctx'[w].voter_id>>, <<VOTE, Get(ctx'[w].body_vote)>>}]_vars

C14Witness ==
    \E w \in Workers :
        /\ Ok(w) /\ ctx[w].method = "POST"
        /\ ctx[w].body_vote = Some(<<"a">>)
        /\ ctx[w].appended
        /\ ctx[w].returning

\* C15: a GET never enters the submission path: it fetches and builds no
\* client, calls no rpush, leaves the queue as it is, and gets the view
\* rendered with no vote and the cookie set.
C15Thm ==
    [][\A w \in Workers :
          ctx'[w] # ctx[w] /\ ctx'[w].method = "GET" =>
             /\ votes' = votes
             /\ postsOk' = postsOk
             /\ ~ctx'[w].g_redis
             /\ ctx'[w].built = 0
             /\ ctx'[w].clients = ctx[w].clients
             /\ ctx'[w].rpush = 0
             /\ ctx'[w].data = None
             /\ ctx'[w].vote = None
             /\ ctx'[w].pc = "done" =>
                   /\ ctx'[w].status = 200
                   /\ ctx'[w].body_vote = None
                   /\ ctx'[w].set_cookie = Some(ctx'[w].voter_id)]_vars

\* A GET answered by a context that served a POST before, with a record in
\* the queue.
C15Witness ==
    \E w \in Workers :
        /\ Ok(w) /\ ctx[w].method = "GET"
        /\ ctx[w].clients > 0
        /\ Len(votes) > 0

====
